---- MODULE Spec2Model ----
(***************************************************************************)
(* Cloud orchestration control logic of cluster-test (aws.rs):             *)
(*   - discover_workspace: metadata fetch, retried describe_instances,     *)
(*     Workspace tag lookup;                                               *)
(*   - autoscale: set_desired_capacity, then a poll of                     *)
(*     describe_auto_scaling_groups under util::retry.                     *)
(* One behaviour of the model is one call of one of the two functions.     *)
(***************************************************************************)
EXTENDS Integers, Sequences, FiniteSets, TLC

(* ------------------------------ bounds --------------------------------- *)
\* largest retry budget (attempts) a policy of the poll loop is drawn from
MaxAttempts == 2
\* longest instance list an auto scaling group reports
MaxInstances == 2
\* largest desired_capacity a caller asks for
MaxCapacity == 2
\* longest tag list an EC2 instance carries
MaxTags == 2

(* --------------------------- program constants ------------------------- *)
\* discover_workspace: `if attempt > 10 { panic!(..) }`
MaxRetries == 10
\* discover_workspace: `thread::sleep(Duration::from_secs(1))`
SleepSecs == 1

(* ------------------------------ Option<T> ------------------------------ *)
\* Rust's Option<T>: None is the empty sequence, Some(x) the one-element one.
None == <<>>
Some(x) == <<x>>
IsSome(o) == Len(o) = 1
Unwrap(o) == o[1]

SeqsUpTo(S, n) == UNION {[1..k -> S] : k \in 0..n}

(* ------------------------ autoscaling provider ------------------------- *)
LifecycleStates == {"InService", "Pending", "Terminating"}

\* rusoto_autoscaling::AutoScalingGroup, reduced to the field autoscale reads
AutoScalingGroups ==
    [instances : {None} \cup {Some(l) : l \in SeqsUpTo(LifecycleStates, MaxInstances)}]

\* Result<AutoScalingGroupsType, RusotoError>: the query names one group, so
\* the provider answers with an error, with no group, or with that group.
DescribeGroupsResponses ==
    {[err |-> TRUE, auto_scaling_groups |-> <<>>]}
    \cup {[err |-> FALSE, auto_scaling_groups |-> <<>>]}
    \cup {[err |-> FALSE, auto_scaling_groups |-> <<g>>] : g \in AutoScalingGroups}

(* --------------------------- EC2 provider ------------------------------ *)
TagKeys == {"Workspace", "workspace", "Name"}
TagValues == {"", "w1", "w2"}

\* rusoto_ec2::Tag { key: Option<String>, value: Option<String> }
Tags == [key : {None} \cup {Some(k) : k \in TagKeys},
         value : {None} \cup {Some(v) : v \in TagValues}]

\* EC2 keeps tag keys unique per resource
TagLists ==
    {l \in SeqsUpTo(Tags, MaxTags) :
        \A i, j \in 1..Len(l) : i # j => l[i].key # l[j].key}

\* rusoto_ec2::Instance { tags: Option<Vec<Tag>>, .. }
Ec2Instances == [tags : {None} \cup {Some(l) : l \in TagLists}]

\* a second instance / reservation the lookup must not look at
OtherInstance == [tags |-> Some(<<[key |-> Some("Workspace"), value |-> Some("other")]>>)]
OtherReservation == [instances |-> Some(<<OtherInstance>>)]

InstanceLists ==
    {None, Some(<<>>)}
    \cup {Some(<<i>>) : i \in Ec2Instances}
    \cup {Some(<<i, OtherInstance>>) : i \in Ec2Instances}

\* rusoto_ec2::Reservation { instances: Option<Vec<Instance>>, .. }
Reservations == [instances : InstanceLists]

ReservationLists ==
    {None, Some(<<>>)}
    \cup {Some(<<r>>) : r \in Reservations}
    \cup {Some(<<r, OtherReservation>>) : r \in Reservations}

\* Result<DescribeInstancesResult, RusotoError>
DescribeInstancesResponses ==
    {[err |-> TRUE, reservations |-> None]}
    \cup {[err |-> FALSE, reservations |-> rs] : rs \in ReservationLists}

InstanceIds == {"i-1", "i-2"}

\* the metadata endpoint: the request fails, the body is no text, or an id
MetadataResponses ==
    {[err |-> "Metadata request failed", id |-> ""],
     [err |-> "Failed to parse metadata response", id |-> ""]}
    \cup {[err |-> "", id |-> i] : i \in InstanceIds}

(* ------------------------------ results -------------------------------- *)
\* anyhow::Result<()> of the poll closure and of autoscale; `at` is the poll
\* that produced the error (0 for the set request)
Ok == [ok |-> TRUE, msg |-> "", at |-> 0]
Err(m, n) == [ok |-> FALSE, msg |-> m, at |-> n]
NoResult == [ok |-> FALSE, msg |-> "pending", at |-> 0]

(* ---------------------------- retry policy ----------------------------- *)
\* fixed_retry_strategy read with its arguments the other way round: the
\* delay in milliseconds first, the number of attempts second
FixedRetryStrategy_DelayFirst(a, b) == [maxAttempts |-> b, intervalMillis |-> a]

\* retry::fixed_retry_strategy: the RetryPolicy of attempts a, b seconds apart
FixedRetryStrategy(a, b) == [maxAttempts |-> a, intervalMillis |-> b * 1000]

\* autoscale: retry::fixed_retry_strategy(10_000, 30)
PollPolicy == FixedRetryStrategy(10000, 30)

\* Duration::from_secs(1) written Duration::from_millis(1)
SleepMillis_FromMillis == SleepSecs

\* discover_workspace: Duration::from_secs(1), in milliseconds
SleepMillis == SleepSecs * 1000

\* SetDesiredCapacityType that leaves cooldown honoring on
SetDesiredCapacityType_HonorCooldown(d) ==
    [desired_capacity |-> d, honor_cooldown |-> Some(TRUE)]

\* autoscale: the SetDesiredCapacityType request built from the argument
SetDesiredCapacityType(d) ==
    [desired_capacity |-> d, honor_cooldown |-> Some(FALSE)]

VARIABLES
    fn,                 \* the function called: "autoscale" or "discover_workspace"
    pc,                 \* position of the call
    desired_capacity,   \* autoscale: argument
    maxAttempts,        \* autoscale: attempt budget of the retry policy
    setResponse,        \* provider: outcome of set_desired_capacity (TRUE = Ok)
    script,             \* provider: answers of describe_auto_scaling_groups, in order
    setCalls,           \* number of set_desired_capacity requests issued
    setRequest,         \* the SetDesiredCapacityType sent (None: none sent)
    polls,              \* number of describe_auto_scaling_groups requests issued
    sleeps,             \* number of thread::sleep calls
    sleptMs,            \* milliseconds slept in all
    infoLogs,           \* number of info! lines of the poll closure
    lastCount,          \* in-service count of the most recent poll (-1: none computed)
    result,             \* autoscale: the returned Result
    metaCalls,          \* number of metadata requests issued
    metaResponse,       \* the answer of the metadata endpoint (None: none yet)
    instance_id,        \* discover_workspace: local instance_id (None before the fetch)
    attempt,            \* discover_workspace: local attempt
    queries,            \* number of describe_instances requests issued
    queriedIds,         \* instance ids the describe_instances requests carried
    lastResponse,       \* the most recent describe_instances response
    workspace,          \* discover_workspace: the returned String (None: nothing returned)
    panicMsg            \* message of the panic that ended the process ("" if none)

vars == <<fn, pc, desired_capacity, maxAttempts, setResponse, script, setCalls,
          setRequest, polls, sleeps, sleptMs, infoLogs, lastCount, result, metaCalls,
          metaResponse, instance_id, attempt, queries, queriedIds, lastResponse,
          workspace, panicMsg>>

autoscaleVars == <<desired_capacity, maxAttempts, setResponse, script, setCalls,
                   setRequest, polls, infoLogs, lastCount, result>>
discoverVars == <<metaCalls, metaResponse, instance_id, attempt, queries, queriedIds,
                  lastResponse, workspace>>

NoResponse == [err |-> TRUE, reservations |-> None]

\* the locals and counters of a call that has not started
InitLocals ==
    /\ setCalls = 0
    /\ setRequest = None
    /\ polls = 0
    /\ sleeps = 0
    /\ sleptMs = 0
    /\ infoLogs = 0
    /\ lastCount = -1
    /\ result = NoResult
    /\ metaCalls = 0
    /\ metaResponse = None
    /\ instance_id = None
    /\ attempt = 0
    /\ queries = 0
    /\ queriedIds = {}
    /\ lastResponse = NoResponse
    /\ workspace = None
    /\ panicMsg = ""

\* A call under the policy autoscale passes to retry::retry, against a
\* provider that gives the same answer to every poll.
PolicyInit ==
    /\ fn \in {"autoscale", "discover_workspace"}
    /\ pc = IF fn = "autoscale" THEN "set" ELSE "metadata"
    /\ IF fn = "autoscale"
       THEN /\ desired_capacity \in 0..MaxCapacity
            /\ maxAttempts = PollPolicy.maxAttempts
            /\ setResponse \in BOOLEAN
            /\ IF setResponse
               THEN script \in [1..1 -> DescribeGroupsResponses]
               ELSE script = <<[err |-> TRUE, auto_scaling_groups |-> <<>>]>>
       ELSE /\ desired_capacity = 0
            /\ maxAttempts = 1
            /\ setResponse = TRUE
            /\ script = <<>>
    /\ InitLocals

\* A call under a policy of 1..MaxAttempts attempts, against every provider.
Init ==
    /\ fn \in {"autoscale", "discover_workspace"}
    /\ pc = IF fn = "autoscale" THEN "set" ELSE "metadata"
    /\ IF fn = "autoscale"
       THEN /\ desired_capacity \in 0..MaxCapacity
            /\ maxAttempts \in 1..MaxAttempts
            /\ setResponse \in BOOLEAN
            \* after a failed set request no poll is ever answered
            /\ IF setResponse
               THEN script \in [1..maxAttempts -> DescribeGroupsResponses]
               ELSE script = [i \in 1..maxAttempts |-> [err |-> TRUE, auto_scaling_groups |-> <<>>]]
       ELSE /\ desired_capacity = 0
            /\ maxAttempts = 1
            /\ setResponse = TRUE
            /\ script = <<>>
    /\ InitLocals

(* ------------------------------ autoscale ------------------------------ *)
\* InServiceCount that leaves out only the instances on their way out
InServiceCount_NotTerminating(instances) ==
    Cardinality({i \in 1..Len(instances) : instances[i] # "Terminating"})

\* asg.instances...iter().filter(|i| i.lifecycle_state == "InService").count()
InServiceCount(instances) ==
    Cardinality({i \in 1..Len(instances) : instances[i] = "InService"})

\* PollClosure with `bail!("")` on zero groups replaced by `return Ok(())`
PollClosure_ZeroGroupsOk(resp, desired, n) ==
    IF resp.err
    THEN [res |-> Err("describe_auto_scaling_groups failed", n), count |-> -1, logs |-> 0]
    ELSE IF Len(resp.auto_scaling_groups) < 1
    THEN [res |-> Ok, count |-> -1, logs |-> 0]
    ELSE LET asg == resp.auto_scaling_groups[1] IN
         IF ~IsSome(asg.instances)
         THEN [res |-> Err("instances not found for auto_scaling_group", n),
               count |-> -1, logs |-> 0]
         ELSE LET count == InServiceCount(Unwrap(asg.instances)) IN
              [res |-> Ok, count |-> count,
               logs |-> IF count < desired THEN 2 ELSE 0]

\* PollClosure with `auto_scaling_groups.len() < 1` written `<= 1`
PollClosure_GroupCheckOffByOne(resp, desired, n) ==
    IF resp.err
    THEN [res |-> Err("describe_auto_scaling_groups failed", n), count |-> -1, logs |-> 0]
    ELSE IF Len(resp.auto_scaling_groups) <= 1
    THEN [res |-> Err("", n), count |-> -1, logs |-> 0]
    ELSE LET asg == resp.auto_scaling_groups[1] IN
         IF ~IsSome(asg.instances)
         THEN [res |-> Err("instances not found for auto_scaling_group", n),
               count |-> -1, logs |-> 0]
         ELSE LET count == InServiceCount(Unwrap(asg.instances)) IN
              [res |-> Ok, count |-> count,
               logs |-> IF count < desired THEN 2 ELSE 0]

\* PollClosure with `.ok_or_else(..)?` written `.unwrap_or_default()`: an
\* absent instance list counts as an empty one
PollClosure_AbsentIsEmpty(resp, desired, n) ==
    IF resp.err
    THEN [res |-> Err("describe_auto_scaling_groups failed", n), count |-> -1, logs |-> 0]
    ELSE IF Len(resp.auto_scaling_groups) < 1
    THEN [res |-> Err("", n), count |-> -1, logs |-> 0]
    ELSE LET asg == resp.auto_scaling_groups[1]
             count == IF IsSome(asg.instances)
                      THEN InServiceCount(Unwrap(asg.instances))
                      ELSE 0
         IN [res |-> Ok, count |-> count,
             logs |-> IF count < desired THEN 2 ELSE 0]

\* The closure autoscale hands to retry::retry, run on the provider's answer
\* `resp` as poll number n: its Result, the count it computed (-1 if it
\* computed none) and the number of info! lines it wrote.
PollClosure(resp, desired, n) ==
    IF resp.err
    THEN [res |-> Err("describe_auto_scaling_groups failed", n), count |-> -1, logs |-> 0]
    ELSE IF Len(resp.auto_scaling_groups) < 1
    THEN [res |-> Err("", n), count |-> -1, logs |-> 0]
    ELSE LET asg == resp.auto_scaling_groups[1] IN
         IF ~IsSome(asg.instances)
         THEN [res |-> Err("instances not found for auto_scaling_group", n),
               count |-> -1, logs |-> 0]
         ELSE LET count == InServiceCount(Unwrap(asg.instances)) IN
              [res |-> Ok, count |-> count,
               logs |-> IF count < desired THEN 2 ELSE 0]

\* RetryStep giving up one attempt early
RetryStep_OffByOne(res, attemptsMade, budget) ==
    IF res.ok THEN "done"
    ELSE IF attemptsMade + 1 < budget THEN "sleep_retry"
    ELSE "done"

\* retry::retry after an attempt: return the attempt's Result ("done") or
\* sleep the interval and run the operation again ("sleep_retry").
RetryStep(res, attemptsMade, budget) ==
    IF res.ok THEN "done"
    ELSE IF attemptsMade < budget THEN "sleep_retry"
    ELSE "done"

\* the provider's answer to the n-th describe_auto_scaling_groups request; a
\* provider asked more often than the script is long repeats its last answer
DescribeGroups(n) ==
    IF n <= Len(script) THEN script[n] ELSE script[Len(script)]

\* SetDesiredCapacity with the `?` dropped: the Result of the request is ignored
SetDesiredCapacity_ErrorDropped ==
    /\ fn = "autoscale"
    /\ pc = "set"
    /\ setCalls' = setCalls + 1
    /\ setRequest' = Some(SetDesiredCapacityType(desired_capacity))
    /\ pc' = "poll"
    /\ result' = result
    /\ UNCHANGED <<fn, desired_capacity, maxAttempts, setResponse, script, polls, sleeps,
                   sleptMs, infoLogs, lastCount, panicMsg>>
    /\ UNCHANGED <<metaCalls, metaResponse, instance_id, attempt, queries, queriedIds,
                   lastResponse, workspace>>

\* asc.set_desired_capacity(..).sync().map_err(..)?
SetDesiredCapacity ==
    /\ fn = "autoscale"
    /\ pc = "set"
    /\ setCalls' = setCalls + 1
    /\ setRequest' = Some(SetDesiredCapacityType(desired_capacity))
    /\ IF setResponse
       THEN /\ pc' = "poll"
            /\ result' = result
       ELSE /\ pc' = "done"
            /\ result' = Err("set_desired_capacity failed", 0)
    /\ UNCHANGED <<fn, desired_capacity, maxAttempts, setResponse, script, polls, sleeps,
                   sleptMs, infoLogs, lastCount, panicMsg>>
    /\ UNCHANGED discoverVars

\* one attempt of retry::retry: the closure runs once, then retry decides
Poll ==
    /\ fn = "autoscale"
    /\ pc = "poll"
    /\ LET n == polls + 1
           out == PollClosure(DescribeGroups(n), desired_capacity, n)
           to == RetryStep(out.res, n, maxAttempts)
       IN /\ polls' = n
          /\ lastCount' = out.count
          /\ infoLogs' = infoLogs + out.logs
          /\ pc' = to
          /\ result' = IF to = "done" THEN out.res ELSE result
    /\ UNCHANGED <<fn, desired_capacity, maxAttempts, setResponse, script, setCalls,
                   setRequest, sleeps, sleptMs, panicMsg>>
    /\ UNCHANGED discoverVars

\* retry::retry sleeping the interval between two attempts
RetrySleep ==
    /\ fn = "autoscale"
    /\ pc = "sleep_retry"
    /\ sleeps' = sleeps + 1
    /\ sleptMs' = sleptMs + PollPolicy.intervalMillis
    /\ pc' = "poll"
    /\ UNCHANGED <<fn, panicMsg>>
    /\ UNCHANGED autoscaleVars
    /\ UNCHANGED discoverVars

(* --------------------------- discover_workspace ------------------------- *)
\* ScanTags looking at the first tag only
ScanTags_FirstOnly(tags, i) ==
    IF i > Len(tags)
    THEN [panic |-> "discover_workspace: no workspace tag", value |-> ""]
    ELSE IF tags[i].key = Some("Workspace")
    THEN IF IsSome(tags[i].value)
         THEN [panic |-> "", value |-> Unwrap(tags[i].value)]
         ELSE [panic |-> "discover_workspace: no tag value", value |-> ""]
    ELSE [panic |-> "discover_workspace: no workspace tag", value |-> ""]

\* ScanTags comparing the key without regard to case
ScanTags_IgnoreCase(tags, i) ==
    IF Len(tags) = 0
    THEN [panic |-> "discover_workspace: no workspace tag", value |-> ""]
    ELSE LET hits == {j \in 1..Len(tags) :
                         tags[j].key \in {Some("Workspace"), Some("workspace")}} IN
         IF hits = {}
         THEN [panic |-> "discover_workspace: no workspace tag", value |-> ""]
         ELSE LET j == CHOOSE h \in hits : \A g \in hits : h <= g IN
              IF IsSome(tags[j].value)
              THEN [panic |-> "", value |-> Unwrap(tags[j].value)]
              ELSE [panic |-> "discover_workspace: no tag value", value |-> ""]

\* for tag in tags.iter() { if tag.key == Some("Workspace") { return value.expect(..) } }
\* followed by the panic after the loop; scanned from position i
RECURSIVE ScanTags(_, _)
ScanTags(tags, i) ==
    IF i > Len(tags)
    THEN [panic |-> "discover_workspace: no workspace tag", value |-> ""]
    ELSE IF tags[i].key = Some("Workspace")
    THEN IF IsSome(tags[i].value)
         THEN [panic |-> "", value |-> Unwrap(tags[i].value)]
         ELSE [panic |-> "discover_workspace: no tag value", value |-> ""]
    ELSE ScanTags(tags, i + 1)

\* ResolveWorkspace taking an empty reservation or instance list for "no
\* workspace" (an empty String) where remove(0) panics
ResolveWorkspace_EmptyDefault(resp) ==
    IF ~IsSome(resp.reservations)
    THEN [panic |-> "discover_workspace: no reservations", value |-> ""]
    ELSE IF Len(Unwrap(resp.reservations)) = 0
    THEN [panic |-> "", value |-> ""]
    ELSE LET instances == Unwrap(resp.reservations)[1].instances IN
         IF ~IsSome(instances)
         THEN [panic |-> "discover_workspace: no instances", value |-> ""]
         ELSE IF Len(Unwrap(instances)) = 0
         THEN [panic |-> "", value |-> ""]
         ELSE LET tags == Unwrap(instances)[1].tags IN
              IF ~IsSome(tags)
              THEN [panic |-> "discover_workspace: no tags", value |-> ""]
              ELSE ScanTags(Unwrap(tags), 1)

\* discover_workspace from `let reservation = result.reservations...` on: the
\* returned String, or the message of the panic
ResolveWorkspace(resp) ==
    IF ~IsSome(resp.reservations)
    THEN [panic |-> "discover_workspace: no reservations", value |-> ""]
    ELSE IF Len(Unwrap(resp.reservations)) = 0
    THEN [panic |-> "removal index (is 0) should be < len (is 0)", value |-> ""]
    ELSE LET instances == Unwrap(resp.reservations)[1].instances IN
         IF ~IsSome(instances)
         THEN [panic |-> "discover_workspace: no instances", value |-> ""]
         ELSE IF Len(Unwrap(instances)) = 0
         THEN [panic |-> "removal index (is 0) should be < len (is 0)", value |-> ""]
         ELSE LET tags == Unwrap(instances)[1].tags IN
              IF ~IsSome(tags)
              THEN [panic |-> "discover_workspace: no tags", value |-> ""]
              ELSE ScanTags(Unwrap(tags), 1)

\* RetriesExhausted with `attempt > 10` written `attempt >= 10`
RetriesExhausted_OffByOne(a) == a >= MaxRetries

\* RetriesExhausted allowing one retry more
RetriesExhausted_OneMore(a) == a > MaxRetries + 1

\* RetriesExhausted that never gives up
RetriesExhausted_Never(a) == FALSE

\* the Err arm of the match: TRUE when the attempt counter has run out
RetriesExhausted(a) == a > MaxRetries

\* CurrentInstanceId asking the endpoint again when the request fails
CurrentInstanceId_Retried ==
    /\ fn = "discover_workspace"
    /\ pc = "metadata"
    /\ \E m \in MetadataResponses :
        /\ metaCalls' = metaCalls + 1
        /\ metaResponse' = Some(m)
        /\ panicMsg' = panicMsg
        /\ IF m.err # ""
           THEN /\ pc' = "metadata"
                /\ instance_id' = instance_id
           ELSE /\ pc' = "describe"
                /\ instance_id' = Some(m.id)
    /\ UNCHANGED <<fn, sleeps, sleptMs, attempt, queries, queriedIds, lastResponse,
                   workspace>>
    /\ UNCHANGED <<desired_capacity, maxAttempts, setResponse, script, setCalls,
                   setRequest, polls, infoLogs, lastCount, result>>

\* let instance_id = current_instance_id();
CurrentInstanceId ==
    /\ fn = "discover_workspace"
    /\ pc = "metadata"
    /\ \E m \in MetadataResponses :
        /\ metaCalls' = metaCalls + 1
        /\ metaResponse' = Some(m)
        /\ IF m.err # ""
           THEN /\ pc' = "panic"
                /\ panicMsg' = m.err
                /\ instance_id' = instance_id
           ELSE /\ pc' = "describe"
                /\ panicMsg' = panicMsg
                /\ instance_id' = Some(m.id)
    /\ UNCHANGED <<fn, sleeps, sleptMs, attempt, queries, queriedIds, lastResponse,
                   workspace>>
    /\ UNCHANGED autoscaleVars

\* one pass of the loop body: the describe_instances request and the match on
\* its result, then (on Ok) the lookup of the Workspace tag
DescribeInstances ==
    /\ fn = "discover_workspace"
    /\ pc = "describe"
    /\ \E resp \in DescribeInstancesResponses :
        /\ queries' = queries + 1
        /\ queriedIds' = queriedIds \cup {Unwrap(instance_id)}
        /\ lastResponse' = resp
        /\ IF resp.err
           THEN /\ attempt' = attempt + 1
                /\ workspace' = workspace
                /\ IF RetriesExhausted(attempt + 1)
                   THEN /\ pc' = "panic"
                        /\ panicMsg' = "Failed to discover workspace"
                   ELSE /\ pc' = "sleep"
                        /\ panicMsg' = panicMsg
           ELSE LET out == ResolveWorkspace(resp) IN
                /\ attempt' = attempt
                /\ IF out.panic # ""
                   THEN /\ pc' = "panic"
                        /\ panicMsg' = out.panic
                        /\ workspace' = workspace
                   ELSE /\ pc' = "done"
                        /\ panicMsg' = panicMsg
                        /\ workspace' = Some(out.value)
    /\ UNCHANGED <<fn, sleeps, sleptMs, metaCalls, metaResponse, instance_id>>
    /\ UNCHANGED autoscaleVars

\* thread::sleep(Duration::from_secs(1)); continue;
ThreadSleep ==
    /\ fn = "discover_workspace"
    /\ pc = "sleep"
    /\ sleeps' = sleeps + 1
    /\ sleptMs' = sleptMs + SleepMillis
    /\ pc' = "describe"
    /\ UNCHANGED <<fn, panicMsg>>
    /\ UNCHANGED autoscaleVars
    /\ UNCHANGED discoverVars

Next ==
    \/ SetDesiredCapacity
    \/ Poll
    \/ RetrySleep
    \/ CurrentInstanceId
    \/ DescribeInstances
    \/ ThreadSleep

Spec == Init /\ [][Next]_vars

\* the same calls under the policy of autoscale
PolicySpec == PolicyInit /\ [][Next]_vars

\* the calling thread keeps running: a request returns, a sleep ends
FairSpec == Init /\ [][Next]_vars /\ WF_vars(Next)

(* ------------------------------ shorthands ------------------------------ *)
Returned == pc = "done"
Panicked == pc = "panic"
InAutoscale == fn = "autoscale"
InDiscover == fn = "discover_workspace"

\* the provider's answer carries a group and that group an instance list
ReportsGroup(resp) ==
    /\ ~resp.err
    /\ Len(resp.auto_scaling_groups) >= 1
    /\ IsSome(resp.auto_scaling_groups[1].instances)

\* number of "InService" entries of the reported group's instance list
Reported(resp) ==
    LET l == Unwrap(resp.auto_scaling_groups[1].instances) IN
    Cardinality({i \in 1..Len(l) : l[i] = "InService"})

ReportsBelow(resp, d) == ReportsGroup(resp) /\ Reported(resp) < d
ReportsAtLeast(resp, d) == ReportsGroup(resp) /\ Reported(resp) >= d
ReportsZeroGroups(resp) == ~resp.err /\ Len(resp.auto_scaling_groups) = 0

\* the provider reports below desired_capacity on polls 1..k-1, at least it on poll k
ConvergesAtPoll(k) ==
    /\ \A i \in 1..(k - 1) : ReportsBelow(script[i], desired_capacity)
    /\ ReportsAtLeast(script[k], desired_capacity)

AlwaysZeroGroups == \A i \in 1..Len(script) : ReportsZeroGroups(script[i])
NeverConverges == \A i \in 1..Len(script) : ReportsBelow(script[i], desired_capacity)

(* ------------------------------- claims --------------------------------- *)

\* C1: capacity convergence. When the set request succeeds and the provider
\* reports one group below desired_capacity on polls 1..k-1 and at least
\* desired_capacity on poll k (1 <= k <= maxAttempts), autoscale returns Ok
\* after exactly k polls.
C1_CapacityConvergence ==
    (InAutoscale /\ Returned /\ setResponse) =>
        \A k \in 1..maxAttempts :
            ConvergesAtPoll(k) => (result = Ok /\ polls = k)

\* C2: success postcondition. Whenever autoscale has returned Ok, the most
\* recent poll saw a group whose in-service count is >= desired_capacity.
C2_SuccessPostcondition ==
    (InAutoscale /\ Returned /\ result.ok) => lastCount >= desired_capacity

\* C3: non-convergence. When the set request succeeds and every poll reports
\* zero groups, autoscale never holds a success, polls until the attempt
\* budget is used up and then returns an error.
C3_ZeroGroupsExhaust ==
    (InAutoscale /\ setResponse /\ AlwaysZeroGroups) =>
        /\ ~result.ok
        /\ polls <= maxAttempts
        /\ pc # "panic"
        /\ Returned => (polls = maxAttempts /\ result # NoResult)

C3_Witness ==
    /\ InAutoscale /\ setResponse /\ AlwaysZeroGroups
    /\ Returned
    /\ maxAttempts >= 2
    /\ polls = maxAttempts
    /\ ~result.ok

\* C4: zero groups and non-convergence are indistinguishable. For
\* desired_capacity >= 1, a run against a provider that always reports zero
\* groups and a run against one that always reports a group below
\* desired_capacity both make maxAttempts polls and both end with an error.
C4_ZeroGroupsLikeNonConvergence ==
    (InAutoscale /\ Returned /\ setResponse /\ desired_capacity >= 1
        /\ (AlwaysZeroGroups \/ NeverConverges)) =>
        (~result.ok /\ polls = maxAttempts)

\* C5: idempotence. When the set request succeeds and the first poll already
\* reports in-service count >= desired_capacity, autoscale returns Ok after
\* exactly one poll and never sleeps.
C5_Idempotence ==
    (InAutoscale /\ setResponse /\ ReportsAtLeast(script[1], desired_capacity)) =>
        /\ sleeps = 0
        /\ polls <= 1
        /\ pc \in {"set", "poll", "done"}
        /\ Returned => (result = Ok /\ polls = 1)

C5_Witness ==
    /\ InAutoscale /\ setResponse
    /\ desired_capacity >= 1
    /\ ReportsGroup(script[1]) /\ Reported(script[1]) = desired_capacity
    /\ maxAttempts >= 2
    /\ Returned /\ result = Ok /\ polls = 1 /\ sleeps = 0

\* C6: a failed set request is surfaced, not retried. autoscale returns an
\* error at once: one set request, no poll, no sleep, no panic.
C6_SetFailureSurfaced ==
    (InAutoscale /\ ~setResponse) =>
        /\ setCalls <= 1
        /\ polls = 0
        /\ sleeps = 0
        /\ pc \in {"set", "done"}
        /\ setCalls = 1 => (Returned /\ ~result.ok /\ result # NoResult)

C6_Witness ==
    /\ InAutoscale /\ ~setResponse
    /\ Returned /\ setCalls = 1 /\ polls = 0
    /\ result = Err("set_desired_capacity failed", 0)

\* the poll closure fails / succeeds on the provider's i-th answer
ClosureFails(i) == ~PollClosure(script[i], desired_capacity, i).res.ok
ClosureSucceeds(i) == PollClosure(script[i], desired_capacity, i).res.ok

\* C7: retry exhaustion. Under a policy of maxAttempts = n >= 1, a poll
\* closure that fails on every attempt is run exactly n times and the error
\* autoscale returns is the one of attempt n, never Ok, never an earlier one.
C7_RetryExhaustion ==
    (InAutoscale /\ setResponse /\ \A i \in 1..maxAttempts : ClosureFails(i)) =>
        /\ ~result.ok
        /\ polls <= maxAttempts
        /\ Returned =>
            /\ polls = maxAttempts
            /\ result = PollClosure(script[maxAttempts], desired_capacity, maxAttempts).res
            /\ result.at = maxAttempts

C7_Witness ==
    /\ InAutoscale /\ setResponse
    /\ maxAttempts >= 2
    /\ \A i \in 1..maxAttempts : ClosureFails(i)
    /\ script[1] # script[maxAttempts]
    /\ Returned /\ polls = maxAttempts /\ sleeps = maxAttempts - 1
    /\ result.at = maxAttempts

\* a describe_instances request has been answered with Ok
QuerySucceeded == queries >= 1 /\ ~lastResponse.err

\* C8: retry stops at first success. An operation that fails on attempts
\* 1..k-1 and succeeds on attempt k <= maxAttempts is run exactly k times and
\* its success is what the loop hands on, with no further run: for the poll
\* loop of autoscale, and for the describe_instances loop of
\* discover_workspace (11 attempts), whose success goes to the tag lookup.
C8_RetryStopsAtFirstSuccess ==
    /\ (InAutoscale /\ setResponse) =>
        \A k \in 1..maxAttempts :
            ((\A i \in 1..(k - 1) : ClosureFails(i)) /\ ClosureSucceeds(k)) =>
                /\ polls <= k
                /\ Returned => (polls = k /\ result = Ok /\ sleeps = k - 1)
    /\ InDiscover =>
        /\ queries = attempt + (IF QuerySucceeded THEN 1 ELSE 0)
        /\ attempt < 11 => panicMsg # "Failed to discover workspace"
        /\ QuerySucceeded =>
            /\ pc \in {"done", "panic"}
            /\ queries <= 11
            /\ sleeps = queries - 1
            /\ LET out == ResolveWorkspace(lastResponse) IN
               IF out.panic = ""
               THEN Returned /\ workspace = Some(out.value)
               ELSE Panicked /\ panicMsg = out.panic

C8_Witness ==
    /\ InDiscover
    /\ QuerySucceeded
    /\ attempt = 10 /\ queries = 11
    /\ Returned
    /\ workspace = Some("w1")

\* C9: attempt budget of workspace discovery. describe_instances is issued at
\* most 11 times; when all 11 attempts fail the process panics without a
\* workspace and without a 12th request; failures before a success among the
\* 11 never end the process.
C9_DiscoveryBudget ==
    InDiscover =>
        /\ queries <= 11
        /\ attempt <= 11
        /\ attempt = 11 =>
            /\ Panicked
            /\ panicMsg = "Failed to discover workspace"
            /\ workspace = None
            /\ queries = 11
        /\ panicMsg = "Failed to discover workspace" => attempt = 11
        /\ (attempt < 11 /\ ~QuerySucceeded) => pc \in {"metadata", "describe", "sleep", "panic"}
        /\ (attempt < 11 /\ ~QuerySucceeded /\ Panicked) => queries = 0

C9_Witness ==
    /\ InDiscover
    /\ Panicked
    /\ panicMsg = "Failed to discover workspace"
    /\ queries = 11 /\ attempt = 11 /\ sleeps = 10
    /\ workspace = None

\* the response reaches a first reservation, a first instance and its tag list
HasTagList(resp) ==
    /\ ~resp.err
    /\ IsSome(resp.reservations)
    /\ Len(Unwrap(resp.reservations)) >= 1
    /\ IsSome(Unwrap(resp.reservations)[1].instances)
    /\ Len(Unwrap(Unwrap(resp.reservations)[1].instances)) >= 1
    /\ IsSome(Unwrap(Unwrap(resp.reservations)[1].instances)[1].tags)

TagListOf(resp) == Unwrap(Unwrap(Unwrap(resp.reservations)[1].instances)[1].tags)

\* C10: Workspace tag lookup. When describe_instances succeeds with a first
\* reservation whose first instance carries a tag of key exactly "Workspace"
\* and value v, discover_workspace returns v, whatever the other tags are and
\* wherever in the tag list the Workspace tag stands.
C10_WorkspaceTagLookup ==
    (InDiscover /\ queries >= 1 /\ HasTagList(lastResponse)) =>
        \A i \in 1..Len(TagListOf(lastResponse)) :
            LET tag == TagListOf(lastResponse)[i] IN
            (tag.key = Some("Workspace") /\ IsSome(tag.value)) =>
                (Returned /\ workspace = tag.value /\ panicMsg = "")

C10_Witness ==
    /\ InDiscover /\ queries >= 1 /\ HasTagList(lastResponse)
    /\ LET tags == TagListOf(lastResponse) IN
        /\ Len(tags) = MaxTags
        /\ tags[Len(tags)] = [key |-> Some("Workspace"), value |-> Some("w1")]
        /\ tags[1] = [key |-> Some("workspace"), value |-> Some("w2")]
    /\ Len(Unwrap(lastResponse.reservations)) = 2
    /\ Returned
    /\ workspace = Some("w1")

\* C11: a missing Workspace tag is fatal. When describe_instances succeeds and
\* no tag of the instance has the key "Workspace", discover_workspace panics
\* after the scan of all tags: nothing is returned and the request is not
\* issued again, whatever is left of the retry budget.
C11_MissingTagFatal ==
    (InDiscover /\ queries >= 1 /\ HasTagList(lastResponse)
        /\ \A i \in 1..Len(TagListOf(lastResponse)) :
               TagListOf(lastResponse)[i].key # Some("Workspace")) =>
        /\ Panicked
        /\ panicMsg = "discover_workspace: no workspace tag"
        /\ workspace = None
        /\ queries = attempt + 1

C11_Witness ==
    /\ InDiscover /\ queries = 1 /\ attempt = 0
    /\ HasTagList(lastResponse)
    /\ LET tags == TagListOf(lastResponse) IN
        /\ Len(tags) = MaxTags
        /\ tags[1] = [key |-> Some("Name"), value |-> Some("w2")]
        /\ tags[Len(tags)] = [key |-> Some("workspace"), value |-> Some("w1")]
    /\ Panicked
    /\ panicMsg = "discover_workspace: no workspace tag"

\* C12: the WorkspaceId is non-empty. Every String discover_workspace
\* returns, also for a Workspace tag that carries an empty value, is non-empty.
C12_WorkspaceNonEmpty ==
    (InDiscover /\ Returned) => (IsSome(workspace) /\ Unwrap(workspace) # "")

\* the first reservation or its instance list is absent or empty
EmptyInventory(resp) ==
    /\ ~resp.err
    /\ \/ ~IsSome(resp.reservations)
       \/ Len(Unwrap(resp.reservations)) = 0
       \/ ~IsSome(Unwrap(resp.reservations)[1].instances)
       \/ Len(Unwrap(Unwrap(resp.reservations)[1].instances)) = 0

\* C16: an empty inventory response is fatal. When describe_instances
\* succeeds with the reservation list absent or empty, or with the first
\* reservation's instance list absent or empty, discover_workspace panics: it
\* returns nothing and does not issue the request again.
C16_EmptyInventoryFatal ==
    (InDiscover /\ queries >= 1 /\ EmptyInventory(lastResponse)) =>
        /\ Panicked
        /\ panicMsg # ""
        /\ panicMsg # "Failed to discover workspace"
        /\ workspace = None
        /\ queries = attempt + 1

C16_Witness ==
    /\ InDiscover /\ queries = 2 /\ attempt = 1
    /\ lastResponse = [err |-> FALSE, reservations |-> Some(<<[instances |-> Some(<<>>)]>>)]
    /\ Panicked
    /\ workspace = None

\* C14: in-service counting. The count a poll compares with desired_capacity
\* is the number of instances of the first returned group whose lifecycle
\* state is exactly "InService"; the progress lines are written exactly when
\* that number is below desired_capacity.
C14_InServiceCounting ==
    (InAutoscale /\ polls >= 1 /\ ReportsGroup(DescribeGroups(polls))) =>
        /\ lastCount = Reported(DescribeGroups(polls))
        /\ infoLogs = IF Reported(DescribeGroups(polls)) < desired_capacity THEN 2 ELSE 0

C14_Witness ==
    /\ InAutoscale /\ polls = MaxAttempts
    /\ DescribeGroups(polls).auto_scaling_groups
           = <<[instances |-> Some(<<"Pending", "InService">>)]>>
    /\ desired_capacity = 1
    /\ lastCount = 1
    /\ infoLogs = 0

\* describe_auto_scaling_groups failed, or its group carries no instance list
FailsOutright(resp) ==
    \/ resp.err
    \/ /\ Len(resp.auto_scaling_groups) >= 1
       /\ ~IsSome(resp.auto_scaling_groups[1].instances)

\* C20: a poll in which describe_auto_scaling_groups fails, or returns a group
\* whose instance list is absent, is a retryable failure of that poll: the
\* next poll follows while budget remains, the error is returned when none
\* remains, and it never counts as convergence, not even for desired_capacity 0.
C20_PollErrorsRetried ==
    (InAutoscale /\ polls >= 1 /\ FailsOutright(DescribeGroups(polls))) =>
        /\ ~result.ok
        /\ lastCount = -1
        /\ IF polls < maxAttempts
           THEN pc \in {"sleep_retry", "poll"}
           ELSE Returned /\ result # NoResult /\ result.at = polls

C20_Witness ==
    /\ InAutoscale /\ desired_capacity = 0
    /\ maxAttempts = 2
    /\ script[1] = [err |-> FALSE, auto_scaling_groups |-> <<[instances |-> None]>>]
    /\ script[2] = [err |-> TRUE, auto_scaling_groups |-> <<>>]
    /\ polls = 2 /\ sleeps = 1
    /\ Returned /\ ~result.ok

C15_MetadataOnce ==
    InDiscover =>
        /\ metaCalls <= 1
        /\ (metaCalls = 0) <=> (pc = "metadata")
        /\ queries >= 1 =>
            /\ metaCalls = 1
            /\ Unwrap(metaResponse).err = ""
            /\ queriedIds = {Unwrap(metaResponse).id}
        /\ (metaCalls = 1 /\ Unwrap(metaResponse).err # "") =>
            /\ Panicked
            /\ panicMsg = Unwrap(metaResponse).err
            /\ queries = 0
            /\ workspace = None

C15_Witness ==
    /\ InDiscover
    /\ metaCalls = 1
    /\ metaResponse = Some([err |-> "", id |-> "i-2"])
    /\ queries = 3 /\ attempt = 2
    /\ queriedIds = {"i-2"}
    /\ Returned

\* C17: blocking bound of the retry loops. There are at most maxAttempts - 1
\* sleeps, each between a failed attempt and the next attempt (none after the
\* last failed attempt, none after a success), so at most intervalMillis x
\* (maxAttempts - 1) is slept; discover_workspace sleeps at most 10 times,
\* 1000 ms each.
C17_BlockingBound ==
    /\ InAutoscale =>
        /\ sleeps <= maxAttempts - 1
        /\ sleptMs <= PollPolicy.intervalMillis * (maxAttempts - 1)
        /\ sleeps = IF pc = "poll" THEN polls
                    ELSE IF polls = 0 THEN 0
                    ELSE polls - 1
        /\ pc = "sleep_retry" => (polls < maxAttempts /\ ClosureFails(polls))
    /\ InDiscover =>
        /\ sleeps <= 10
        /\ sleptMs = 1000 * sleeps
        /\ sleeps = IF pc = "describe" THEN queries
                    ELSE IF queries = 0 THEN 0
                    ELSE queries - 1
        /\ pc = "sleep" => (lastResponse.err /\ attempt <= 10)

C17_Witness ==
    /\ InDiscover
    /\ Panicked
    /\ attempt = 11
    /\ sleeps = 10
    /\ sleptMs = 10000

Terminated == pc \in {"done", "panic"}

\* C18: termination. Whatever the providers answer, a call of
\* discover_workspace ends by returning or by a panic and a call of autoscale
\* ends by returning; no retry loop goes beyond its budget of requests.
C18_Termination ==
    /\ [](queries <= 11 /\ polls <= maxAttempts)
    /\ <>Terminated

C18_Witness ==
    /\ InAutoscale
    /\ Terminated
    /\ maxAttempts = MaxAttempts
    /\ polls = maxAttempts
    /\ ~result.ok /\ result # NoResult

\* C19: set, then poll. Every call of autoscale issues exactly one
\* set_desired_capacity request; it carries the caller's desired_capacity with
\* honor_cooldown false, comes before every poll and is not issued again
\* while polling.
C19_SetThenPoll ==
    InAutoscale =>
        /\ setCalls <= 1
        /\ (setCalls = 0) <=> (pc = "set")
        /\ polls >= 1 => setCalls = 1
        /\ setCalls = 1 =>
            setRequest = Some([desired_capacity |-> desired_capacity,
                               honor_cooldown |-> Some(FALSE)])

C19_Witness ==
    /\ InAutoscale
    /\ desired_capacity = MaxCapacity
    /\ maxAttempts >= 2
    /\ polls = maxAttempts
    /\ Returned /\ ~result.ok
    /\ setCalls = 1
====
